---- MODULE Spec2Model ----
(***************************************************************************)
(* Model of the chunking-and-embedding ingestion pipeline of               *)
(* src/services/service.py and src/services/base.py: construction of a     *)
(* BaseIngestor (limit detection, optional chunking), followed by          *)
(* Service.run (one request to the embedding endpoint, Result assembly).   *)
(* Around it: the two batch loaders (src/load_sentences.py,                *)
(* src/load_normas.py) with their ingestors, and the scraping session of   *)
(* src/scraper/sentences_scraper.py.  Each part has its own specification; *)
(* the variables of the other parts stay at their idle values.             *)
(*                                                                         *)
(* A text is a sequence of characters over Chars.  An overlap fraction is  *)
(* a pair <<num, den>> standing for the float num/den; the fractions used  *)
(* are those for which the float product of service.py:78 truncates to the *)
(* same integer as the exact product.                                      *)
(***************************************************************************)
EXTENDS Integers, Sequences, FiniteSets, TLC

VARIABLES
    text,            \* BaseIngestor.__init__ argument text
    token_limit,     \* BaseIngestor.__init__ argument token_limit
    force_chunking,  \* BaseIngestor.__init__ argument force_chunking
    chunking_params, \* BaseIngestor.__init__ argument chunking_params (dict)
    pc,              \* "new" | "constructed" | "raised" | "done"
    raised,          \* the exception that escaped to the caller, or NoError
    split_calls,     \* number of calls of split_document so far
    split_args,      \* the max_tokens and overlap split_document was called with
    windows,         \* the windows the loop of split_document visited
    chunk_starts,    \* start offset i of each chunk appended to token_chunks
    documents,       \* IngestorService.documents
    requests,        \* bodies ("input") posted to the embedding endpoint
    response,        \* the endpoint's answer to the request of this run
    result,          \* Service.result
    \* two services side by side (base.py:7-27)
    svc,             \* per service: position, documents, answer, Result fields
    heap_data,       \* the dict objects created so far (Result._data)
    heap_errors,     \* the list objects created so far (Result._errors)
    \* load_sentences_for_period (load_sentences.py:117-224)
    sentences_pc,         \* "off" | "start" | "loop" | "end"
    scrape,               \* "none" (no dates) | "ok" | "error": the scraping step
    process_existing,     \* argument process_existing
    sentences_html_dir,   \* the HTML files in SENTENCES_HTML_DIR
    sentences_json_dir,   \* the HTML files whose JSON is in PROCESSED_JSON_DIR
    found_files,          \* html_files as extended at lines 154 and 159
    html_files,           \* html_files after line 166
    sentence_log,         \* one entry per iteration of the loop of line 173
    sentences_successful, \* successful
    sentences_failed,     \* failed
    \* load_norms_for_period (load_normas.py:193-359)
    norms_pc,               \* "off" | "start" | "loop" | "end"
    norm_type,              \* argument norm_type
    norms_process_existing, \* argument process_existing
    norms_json_dir,         \* the JSON files in NORMS_JSON_DIR
    norms_processed_dir,    \* the originals whose copy is in PROCESSED_JSON_DIR
    json_files_to_process,  \* json_files_to_process
    norm_log,               \* one entry per iteration of the loop of line 292
    norms_successful,       \* successful
    norms_failed,           \* failed
    norms_scrape,           \* "none" (no dates) | "ok" | "error": the scraping step
    norms_links_file,       \* the URLs listed in NORMS_LINKS_FILE
    urls_to_process,        \* urls_to_process
    url_log,                \* one entry per iteration of the loop of line 240
    processed_urls,         \* processed_urls
    \* scrape_sentences (scraper/sentences_scraper.py:32-333)
    scraper_pc,         \* "off" | "call" | "rows" | "returned" | "raised"
    retry_count,        \* retry_count of the running call
    calls,              \* the calls of scrape_sentences so far, retries included
    reported_max,       \* "Max retries reached" has been printed
    total_pages,        \* total_pages
    current_page,       \* current_page
    total_rows,         \* total_rows of the current page
    current_row,        \* current_row
    popup_retry_count,  \* popup_retry_count
    row_written,        \* an attempt at the current row has written its file
    row_log,            \* one entry per row the loop of line 176 has left
    output_files        \* the rows whose file has been written to output_dir

\* the variables of one ingestion (BaseIngestor construction and Service.run)
core_vars == <<text, token_limit, force_chunking, chunking_params, pc, raised,
               split_calls, split_args, windows, chunk_starts, documents,
               requests, response, result>>

\* the variables of two services owning one Result each
pair_vars == <<svc, heap_data, heap_errors>>

\* the variables of one run of the sentence batch loader
sentence_vars == <<sentences_pc, scrape, process_existing, sentences_html_dir,
                   sentences_json_dir, found_files, html_files, sentence_log,
                   sentences_successful, sentences_failed>>

\* the variables of one run of the norms batch loader
norm_vars == <<norms_pc, norm_type, norms_process_existing, norms_json_dir,
               norms_processed_dir, json_files_to_process, norm_log,
               norms_successful, norms_failed, norms_scrape, norms_links_file,
               urls_to_process, url_log, processed_urls>>

\* the variables of one scraping session
scraper_vars == <<scraper_pc, retry_count, calls, reported_max, total_pages,
                  current_page, total_rows, current_row, popup_retry_count,
                  row_written, row_log, output_files>>

loader_vars == <<sentence_vars, norm_vars, scraper_vars>>

vars == <<core_vars, pair_vars, loader_vars>>

(***************************************************************************)
(* Bounds and input domains                                                *)
(***************************************************************************)
MaxLen == 4

Chars == {"a", " "}

MAX_TOKENS_MODEL == 8192

MAX_TOKENS_CHUNKING == 512

OVERLAP == <<1, 5>>

SafetyMargin == 5

HTTP_OK == 200

RECURSIVE SeqsUpTo(_, _)
SeqsUpTo(S, n) ==
    IF n = 0 THEN {<<>>}
    ELSE LET shorter == SeqsUpTo(S, n - 1)
         IN  shorter \cup {Append(s, c) : s \in {t \in shorter : Len(t) = n - 1}, c \in S}

\* a long text of plain words whose encoding has 2000 tokens
LoremText == [k \in 1..1998 |-> "a"]

ShortTexts == SeqsUpTo(Chars, MaxLen)

TokenLimits == {3, 5, MAX_TOKENS_MODEL}

MaxTokensVals == {4, 5, 6, 7, 8, 9, MAX_TOKENS_CHUNKING}

Overlaps == {<<-1, 1>>, <<0, 1>>, <<1, 5>>, <<1, 2>>, <<4, 5>>, <<1, 1>>, <<3, 2>>, <<2, 1>>}

\* {} and None: no key set
EmptyDict == [k \in {} |-> 0]

\* chunking_params: a dict that sets any subset of the keys max_tokens, overlap
ChunkingParams ==
    {[max_tokens |-> m, overlap |-> o] : m \in MaxTokensVals, o \in Overlaps}
    \cup {[max_tokens |-> m] : m \in MaxTokensVals}
    \cup {[overlap |-> o] : o \in Overlaps}
    \cup {EmptyDict}

(***************************************************************************)
(* Tokenizer adapter (service.py:15): the sentencepiece tokenizer of       *)
(* BAAI/bge-m3.  Encoding collapses runs of whitespace, trims the text,    *)
(* emits one piece per remaining character (the meta piece "_" for a       *)
(* space) and wraps the pieces in the special tokens "<s>" and "</s>".     *)
(***************************************************************************)
BOS == "<s>"

EOS == "</s>"

META == "_"

SpecialTokens == {BOS, EOS}

\* the characters of s[lo..hi] that do not repeat a space before them
RECURSIVE CollapseRange(_, _, _)
CollapseRange(s, lo, hi) ==
    IF lo > hi THEN <<>>
    ELSE IF lo = hi
         THEN IF lo > 1 /\ s[lo] = " " /\ s[lo - 1] = " " THEN <<>> ELSE <<s[lo]>>
    ELSE LET mid == (lo + hi) \div 2
         IN  CollapseRange(s, lo, mid) \o CollapseRange(s, mid + 1, hi)

CollapseSpaces(s) == CollapseRange(s, 1, Len(s))

RECURSIVE LStrip(_)
LStrip(s) == IF s # <<>> /\ s[1] = " " THEN LStrip(Tail(s)) ELSE s

RECURSIVE RStrip(_)
RStrip(s) ==
    IF s # <<>> /\ s[Len(s)] = " " THEN RStrip(SubSeq(s, 1, Len(s) - 1)) ELSE s

\* str.strip()
Strip(s) == LStrip(RStrip(s))

Normalize(s) == Strip(CollapseSpaces(s))

Piece(c) == IF c = " " THEN META ELSE c

\* tokenizer(text, return_tensors="pt")["input_ids"][0]
Tokenize(t) ==
    LET n == Normalize(t)
    IN  <<BOS>> \o [k \in 1..Len(n) |-> Piece(n[k])] \o <<EOS>>

IsContent(tok) == tok \notin SpecialTokens

\* tokenizer.decode(chunk_tokens, skip_special_tokens=True)
Decode(toks) ==
    LET pieces == SelectSeq(toks, IsContent)
        chars  == [k \in 1..Len(pieces) |-> IF pieces[k] = META THEN " " ELSE pieces[k]]
    IN  IF chars # <<>> /\ chars[1] = " " THEN Tail(chars) ELSE chars

\* truth value of a str: non-empty
Truthy(s) == s # <<>>

(***************************************************************************)
(* Python primitives used by split_document                                *)
(***************************************************************************)
\* int(p / q) for q > 0: truncation toward zero
Trunc(p, q) == IF p >= 0 THEN p \div q ELSE -((-p) \div q)

\* int((max_tokens - 5) * overlap) with overlap the float o[1] / o[2]
IntOfProduct(w, o) == Trunc(w * o[1], o[2])

Min(a, b) == IF a < b THEN a ELSE b

Max(a, b) == IF a > b THEN a ELSE b

\* index normalisation of seq[lo:hi] for a sequence of length n
ClampIndex(k, n) == IF k < 0 THEN Max(k + n, 0) ELSE Min(k, n)

\* seq[lo:hi], 0-based, negative bounds counted from the end
PySlice(s, lo, hi) ==
    LET a == ClampIndex(lo, Len(s))
        b == ClampIndex(hi, Len(s))
    IN  IF a < b THEN SubSeq(s, a + 1, b) ELSE <<>>

\* len(range(0, stop, step)) for step # 0
RangeLen(stop, step) ==
    IF step > 0
    THEN IF stop > 0 THEN (stop + step - 1) \div step ELSE 0
    ELSE IF stop < 0 THEN ((-stop) + (-step) - 1) \div (-step) ELSE 0

\* list(range(0, stop, step)) for step # 0
Range(stop, step) == [k \in 1..RangeLen(stop, step) |-> (k - 1) * step]

(***************************************************************************)
(* IngestorService.split_document (service.py:73-86)                       *)
(***************************************************************************)
\* slip: the overlap is added to the window instead of subtracted
StepOf_AddsOverlap(max_tokens, overlap) ==
    (max_tokens - SafetyMargin) + IntOfProduct(max_tokens - SafetyMargin, overlap)

\* step = (max_tokens - 5) - int((max_tokens - 5) * overlap)
StepOf(max_tokens, overlap) ==
    (max_tokens - SafetyMargin) - IntOfProduct(max_tokens - SafetyMargin, overlap)

\* range(0, len(tokens), 0) raises ValueError before the first iteration
SplitRaises(max_tokens, overlap) == StepOf(max_tokens, overlap) = 0

\* slip: the window is cut without the safety margin
WindowAt_NoMargin(tokens, i, max_tokens) == PySlice(tokens, i, i + max_tokens)

\* chunk_tokens = tokens[i : i + max_tokens - 5]
WindowAt(tokens, i, max_tokens) == PySlice(tokens, i, i + max_tokens - SafetyMargin)

\* the windows visited by "for i in range(0, len(tokens), step)", in order
SplitWindows(t, max_tokens, overlap) ==
    LET tokens == Tokenize(t)
        starts == Range(Len(tokens), StepOf(max_tokens, overlap))
    IN  [k \in 1..Len(starts) |->
            [start |-> starts[k], tokens |-> WindowAt(tokens, starts[k], max_tokens)]]

\* slip: the filter keeps the blank chunks and drops the others
KeepChunk_Inverted(chunk_text) == ~Truthy(Strip(chunk_text))

\* slip: no filter, every decoded window is appended
KeepChunk_All(chunk_text) == TRUE

\* if chunk_text.strip(): token_chunks.append(chunk_text)
KeepChunk(chunk_text) == Truthy(Strip(chunk_text))

IsKept(w) == KeepChunk(Decode(w.tokens))

\* the windows whose decoded text is appended to token_chunks
KeptWindows(t, max_tokens, overlap) == SelectSeq(SplitWindows(t, max_tokens, overlap), IsKept)

\* the returned token_chunks (defined when not SplitRaises)
split_document(t, max_tokens, overlap) ==
    LET kept == KeptWindows(t, max_tokens, overlap)
    IN  [k \in 1..Len(kept) |-> Decode(kept[k].tokens)]

(***************************************************************************)
(* BaseIngestor (service.py:89-121)                                        *)
(***************************************************************************)
\* slip: a text with exactly token_limit tokens counts as exceeding
exceeds_token_limit_Inclusive(t, limit) == Len(Tokenize(t)) >= limit

\* len(tokens) > token_limit
exceeds_token_limit(t, limit) == Len(Tokenize(t)) > limit

\* if force_chunking or self.exceeds_token_limit(text, token_limit)
ShouldChunk(t, limit, force) == force \/ exceeds_token_limit(t, limit)

HasKey(d, k) == k \in DOMAIN d

\* slip: the caller's max_tokens is used only when both keys are given
EffMaxTokens_NeedsBothKeys(cp) ==
    IF HasKey(cp, "max_tokens") /\ HasKey(cp, "overlap") THEN cp.max_tokens
    ELSE MAX_TOKENS_CHUNKING

\* the max_tokens split_document runs with: **chunking_params over the defaults
EffMaxTokens(cp) == IF HasKey(cp, "max_tokens") THEN cp.max_tokens ELSE MAX_TOKENS_CHUNKING

EffOverlap(cp) == IF HasKey(cp, "overlap") THEN cp.overlap ELSE OVERLAP

NoError == "none"

\* split_document not called yet
NoArgs == [max_tokens |-> 0, overlap |-> <<0, 1>>]

\* the bound arguments of self.split_document(text, **chunking_params) and of
\* self.split_document(text, max_tokens=MAX_TOKENS_CHUNKING, overlap=OVERLAP)
SplitArgs(cp) == [max_tokens |-> EffMaxTokens(cp), overlap |-> EffOverlap(cp)]

\* TextIngestorService defaults: record_id=0, record_type="text"
RecordId == 0

RecordType == "text"

(***************************************************************************)
(* Embedding endpoint (service.py:54-66): the answer to the one POST.      *)
(* A vector is identified by the document it was computed from.            *)
(***************************************************************************)
Embedding(doc) == [embedding |-> doc]

HonestData(docs) == [k \in 1..Len(docs) |-> Embedding(docs[k])]

\* response bodies: {"data": [...]} with as many, fewer or more items than
\* documents, or a body without the key "data"
Bodies(docs) ==
    {[has_data |-> TRUE, data |-> HonestData(docs)],
     [has_data |-> TRUE, data |-> Append(HonestData(docs), Embedding(<<>>))],
     [has_data |-> TRUE, data |-> SubSeq(HonestData(docs), 1, Len(docs) - 1)],
     [has_data |-> FALSE, data |-> <<>>]}

ErrorBodies == {[has_data |-> FALSE, data |-> <<>>]}

StatusCodes == {HTTP_OK, 404, 500}

NoResponse == [transport_ok |-> FALSE, status |-> 0, has_data |-> FALSE, data |-> <<>>]

Responses(docs) ==
    {NoResponse}
    \cup {[transport_ok |-> TRUE, status |-> HTTP_OK, has_data |-> b.has_data, data |-> b.data] :
             b \in Bodies(docs)}
    \cup {[transport_ok |-> TRUE, status |-> st, has_data |-> b.has_data, data |-> b.data] :
             st \in StatusCodes \ {HTTP_OK}, b \in ErrorBodies \cup {[has_data |-> TRUE, data |-> HonestData(docs)]}}

(***************************************************************************)
(* IngestorService.generate_embeddings (service.py:43-71).  The outcome is *)
(* [raises, message, embeddings]; a message is the sequence of the parts   *)
(* the f-strings concatenate.                                              *)
(***************************************************************************)
\* slip: only 5xx answers are treated as errors
StatusIsError_OnlyServerErrors(status) == status >= 500

\* if response.status_code != 200
StatusIsError(status) == status # HTTP_OK

Returned(embeddings) == [raises |-> FALSE, message |-> <<>>, embeddings |-> embeddings]

\* raise RuntimeError(f"Error generating embeddings: {e}")
Rewrapped(cause) ==
    [raises |-> TRUE, message |-> <<"Error generating embeddings: ">> \o cause, embeddings |-> <<>>]

generate_embeddings(resp) ==
    IF ~resp.transport_ok THEN Rewrapped(<<"ConnectionError">>)
    ELSE IF StatusIsError(resp.status)
         THEN Rewrapped(<<"Embedding service error: ", ToString(resp.status)>>)
    ELSE IF ~resp.has_data THEN Rewrapped(<<"'data'">>)
    ELSE Returned([k \in 1..Len(resp.data) |-> resp.data[k].embedding])

\* slip: one request per chunk
Posts_PerChunk(docs) == [k \in 1..Len(docs) |-> <<docs[k]>>]

\* the requests.post calls of one generate_embeddings(document_list): one
\* call whose "input" is the whole list
Posts(docs) == <<docs>>

(***************************************************************************)
(* Result (base.py:23-75)                                                  *)
(***************************************************************************)
\* Result()
NewResult == [success |-> TRUE, data |-> EmptyDict, errors |-> <<>>]

\* Result.add_error(error)
add_error(r, error) == [r EXCEPT !.errors = Append(@, error), !.success = FALSE]

\* the four assignments self.result[...] = ... of _execute
Populate(r, docs, embeddings) ==
    [r EXCEPT !.data = [record_id |-> RecordId, record_type |-> RecordType,
                        text |-> docs, embeddings |-> embeddings]]

\* slip: the record fields are stored before the embeddings are requested
ExecuteRaising_StoresFirst(r, docs) ==
    [r EXCEPT !.data = [record_id |-> RecordId, record_type |-> RecordType, text |-> docs]]

\* the Result when generate_embeddings raises at line 36 of _execute: the
\* assignments of lines 38-41 have not run
ExecuteRaising(r, docs) == r

(***************************************************************************)
(* State machine                                                           *)
(***************************************************************************)
(***************************************************************************)
(* The batch loaders when they are not running                             *)
(***************************************************************************)
SentencesIdle ==
    /\ sentences_pc = "off"
    /\ scrape = "none"
    /\ process_existing = FALSE
    /\ sentences_html_dir = {}
    /\ sentences_json_dir = {}
    /\ found_files = <<>>
    /\ html_files = <<>>
    /\ sentence_log = <<>>
    /\ sentences_successful = 0
    /\ sentences_failed = 0

NormsIdle ==
    /\ norms_pc = "off"
    /\ norm_type = "law"
    /\ norms_process_existing = FALSE
    /\ norms_json_dir = {}
    /\ norms_processed_dir = {}
    /\ json_files_to_process = <<>>
    /\ norm_log = <<>>
    /\ norms_successful = 0
    /\ norms_failed = 0
    /\ norms_scrape = "none"
    /\ norms_links_file = <<>>
    /\ urls_to_process = <<>>
    /\ url_log = <<>>
    /\ processed_urls = <<>>

(***************************************************************************)
(* scrape_sentences (scraper/sentences_scraper.py:32-333) for a session of *)
(* one search period: the result pages, the rows of each page, the popup   *)
(* of each row, and the except clause that retries the session.            *)
(***************************************************************************)
MAX_RETRIES == 5

max_popup_retries == 3

\* the numbers of result pages and of rows on a page the site can show
PageCounts == {1, 2}

RowCounts == {0, 1, 2}

\* how one attempt at a popup can fail: before the file exists (the popup
\* does not open, does not load, has no body, the file cannot be opened),
\* or once it exists (the write of line 238 or sentence_page.close() of
\* line 240 raises)
PopupFailures == {"before_write", "after_write"}

\* the keyword arguments print() accepts
PrintKeywords == {"sep", "end", "file", "flush"}

\* print(..., keyword=value) raises TypeError for any other keyword
PrintRaises(keyword) == keyword \notin PrintKeywords

\* the except clause of lines 315-333: the print of line 318 is called with
\* exc_info; after it, a retry while retry_count < MAX_RETRIES, else the
\* "Max retries reached" message
ExceptHandler(count) ==
    IF PrintRaises("exc_info") THEN "TypeError"
    ELSE IF count < MAX_RETRIES THEN "retry"
    ELSE "give_up"

ScraperIdle ==
    /\ scraper_pc = "off"
    /\ retry_count = 0
    /\ calls = 0
    /\ reported_max = FALSE
    /\ total_pages = 0
    /\ current_page = 0
    /\ total_rows = 0
    /\ current_row = 0
    /\ popup_retry_count = 0
    /\ row_written = FALSE
    /\ row_log = <<>>
    /\ output_files = {}

LoaderIdle == SentencesIdle /\ NormsIdle /\ ScraperIdle

(***************************************************************************)
(* Two services (base.py:7-27).  Result.__init__ creates a dict and a list *)
(* when data and errors are None; a Result refers to them by their         *)
(* position in heap_data and heap_errors.                                  *)
(***************************************************************************)
Services == {1, 2}

\* the document lists the two services are constructed with
PairDocs(i) == IF i = 1 THEN {<<<<"a">>>>, <<<<"a">>, <<"a", "a">>>>}
               ELSE {<<<<" ">>>>, <<<<"a", " ">>>>}

NoService == [pc |-> "none", documents |-> <<>>, response |-> NoResponse,
              success |-> TRUE, data |-> 0, errors |-> 0]

PairIdle ==
    /\ svc = [i \in Services |-> NoService]
    /\ heap_data = <<>>
    /\ heap_errors = <<>>

\* slip: one default object shared by every Result (a mutable default argument)
FreshRef_SharedDefault(heap) == 1

\* "data if data is not None else {}": a new object at every call
FreshRef(heap) == Len(heap) + 1

\* the heap once the object ref exists, created with value v if it is new
WithObject(heap, ref, v) == IF ref > Len(heap) THEN Append(heap, v) ELSE heap

\* the Result a service refers to, as its accessors show it
ResultOf(i) == [success |-> svc[i].success,
                data    |-> heap_data[svc[i].data],
                errors  |-> heap_errors[svc[i].errors]]

\* IngestorService.__init__: Service.__init__ sets self.result = Result()
PairConstruct(i) ==
    /\ svc[i].pc = "none"
    /\ \E docs \in PairDocs(i) :
          svc' = [svc EXCEPT ![i] = [pc |-> "constructed", documents |-> docs,
                                     response |-> NoResponse, success |-> TRUE,
                                     data |-> FreshRef(heap_data),
                                     errors |-> FreshRef(heap_errors)]]
    /\ heap_data' = WithObject(heap_data, FreshRef(heap_data), EmptyDict)
    /\ heap_errors' = WithObject(heap_errors, FreshRef(heap_errors), <<>>)
    /\ UNCHANGED <<core_vars, loader_vars>>

\* the Result of service i after run() with the endpoint answering resp
RunOutcome(i, resp) ==
    IF generate_embeddings(resp).raises
    THEN add_error(ExecuteRaising(ResultOf(i), svc[i].documents),
                   generate_embeddings(resp).message)
    ELSE Populate(ResultOf(i), svc[i].documents, generate_embeddings(resp).embeddings)

\* Service.run of service i: the writes go to the objects its Result refers to
PairRun(i) ==
    /\ svc[i].pc = "constructed"
    /\ \E resp \in Responses(svc[i].documents) :
          /\ svc' = [svc EXCEPT ![i].pc = "done", ![i].response = resp,
                                ![i].success = RunOutcome(i, resp).success]
          /\ heap_data' = [heap_data EXCEPT ![svc[i].data] = RunOutcome(i, resp).data]
          /\ heap_errors' = [heap_errors EXCEPT ![svc[i].errors] = RunOutcome(i, resp).errors]
    /\ UNCHANGED <<core_vars, loader_vars>>

\* the ingestion of the other specifications is not running
CoreIdle ==
    /\ text = <<>>
    /\ chunking_params = EmptyDict
    /\ token_limit = MAX_TOKENS_MODEL
    /\ force_chunking = FALSE
    /\ pc = "off"
    /\ raised = NoError
    /\ split_calls = 0
    /\ split_args = NoArgs
    /\ windows = <<>>
    /\ chunk_starts = <<>>
    /\ documents = <<>>
    /\ requests = <<>>
    /\ response = NoResponse
    /\ result = NewResult

InitPair == CoreIdle /\ PairIdle /\ LoaderIdle

NextPair == \E i \in Services : PairConstruct(i) \/ PairRun(i)

SpecPair == InitPair /\ [][NextPair]_vars

(***************************************************************************)
(* One ingestion                                                           *)
(***************************************************************************)
\* every short text under every configuration; the long text under the
\* default chunking parameters
Init ==
    /\ \/ text \in ShortTexts /\ chunking_params \in ChunkingParams
       \/ text = LoremText /\ chunking_params = EmptyDict
    /\ token_limit \in TokenLimits
    /\ force_chunking \in BOOLEAN
    /\ pc = "new"
    /\ raised = NoError
    /\ split_calls = 0
    /\ split_args = NoArgs
    /\ windows = <<>>
    /\ chunk_starts = <<>>
    /\ documents = <<>>
    /\ requests = <<>>
    /\ response = NoResponse
    /\ result = NewResult
    /\ PairIdle
    /\ LoaderIdle

\* BaseIngestor.__init__ on the chunking path, split_document raising
ConstructRaises ==
    /\ pc = "new"
    /\ ShouldChunk(text, token_limit, force_chunking)
    /\ SplitRaises(EffMaxTokens(chunking_params), EffOverlap(chunking_params))
    /\ pc' = "raised"
    /\ raised' = "ValueError"
    /\ split_calls' = split_calls + 1
    /\ split_args' = SplitArgs(chunking_params)
    /\ UNCHANGED <<text, token_limit, force_chunking, chunking_params, windows,
                   chunk_starts, documents, requests, response, result>>
    /\ UNCHANGED <<pair_vars, loader_vars>>

\* BaseIngestor.__init__ on the chunking path, split_document returning
ConstructChunked ==
    /\ pc = "new"
    /\ ShouldChunk(text, token_limit, force_chunking)
    /\ ~SplitRaises(EffMaxTokens(chunking_params), EffOverlap(chunking_params))
    /\ LET mt   == EffMaxTokens(chunking_params)
           ov   == EffOverlap(chunking_params)
           kept == KeptWindows(text, mt, ov)
       IN  /\ windows' = SplitWindows(text, mt, ov)
           /\ chunk_starts' = [k \in 1..Len(kept) |-> kept[k].start]
           /\ documents' = split_document(text, mt, ov)
    /\ split_calls' = split_calls + 1
    /\ split_args' = SplitArgs(chunking_params)
    /\ pc' = "constructed"
    /\ UNCHANGED <<text, token_limit, force_chunking, chunking_params, raised,
                   requests, response, result>>
    /\ UNCHANGED <<pair_vars, loader_vars>>

\* BaseIngestor.__init__ without chunking: documents = [text]
ConstructWhole ==
    /\ pc = "new"
    /\ ~ShouldChunk(text, token_limit, force_chunking)
    /\ documents' = <<text>>
    /\ pc' = "constructed"
    /\ UNCHANGED <<text, token_limit, force_chunking, chunking_params, raised,
                   split_calls, split_args, windows, chunk_starts, requests,
                   response, result>>
    /\ UNCHANGED <<pair_vars, loader_vars>>

\* Service.run with _execute raising inside generate_embeddings
RunFails ==
    /\ pc = "constructed"
    /\ \E resp \in Responses(documents) :
          /\ generate_embeddings(resp).raises
          /\ response' = resp
          /\ result' = add_error(ExecuteRaising(result, documents),
                                 generate_embeddings(resp).message)
    /\ requests' = requests \o Posts(documents)
    /\ pc' = "done"
    /\ UNCHANGED <<text, token_limit, force_chunking, chunking_params, raised,
                   split_calls, split_args, windows, chunk_starts, documents>>
    /\ UNCHANGED <<pair_vars, loader_vars>>

\* Service.run with _execute completing
RunSucceeds ==
    /\ pc = "constructed"
    /\ \E resp \in Responses(documents) :
          /\ ~generate_embeddings(resp).raises
          /\ response' = resp
          /\ result' = Populate(result, documents, generate_embeddings(resp).embeddings)
    /\ requests' = requests \o Posts(documents)
    /\ pc' = "done"
    /\ UNCHANGED <<text, token_limit, force_chunking, chunking_params, raised,
                   split_calls, split_args, windows, chunk_starts, documents>>
    /\ UNCHANGED <<pair_vars, loader_vars>>

Next ==
    \/ ConstructRaises
    \/ ConstructChunked
    \/ ConstructWhole
    \/ RunFails
    \/ RunSucceeds

Spec == Init /\ [][Next]_vars

(***************************************************************************)
(* What the two ingestors build from the Result of a run                   *)
(* (sentence_html_ingestor.py:45-77, norms_json_ingestor.py:103-156)       *)
(***************************************************************************)
\* [{"chunk": c, "vector": v} for c, v in zip(chunks, vectors)]
ZipAttributes(chunks, vectors) ==
    [k \in 1..Min(Len(chunks), Len(vectors)) |-> [chunk |-> chunks[k], vector |-> vectors[k]]]

\* lines 45-51: the chunks of the Result zipped with its embeddings
ShortEmbeddingsAttributes(res) == ZipAttributes(res.data.text, res.data.embeddings)

\* lines 66-72: [main_text] zipped with the embeddings of the Result
LongEmbeddingsAttributes(main_text, res) == ZipAttributes(<<main_text>>, res.data.embeddings)

\* norms_json_ingestor.py:103-156: text and chunk are the first entry of
\* the Result's documents, the vector the first entry of its embeddings
ProcessedArticle(res) ==
    [text   |-> res.data.text[1],
     long_embeddings_attributes |->
         <<[chunk |-> res.data.text[1], vector |-> res.data.embeddings[1]]>>]

(***************************************************************************)
(* The sentence batch loader (load_sentences.py:117-224) with              *)
(* SentenceHTMLIngestor.ingest_file (sentence_html_ingestor.py:20-98).     *)
(* sentences_html_dir is the directory as the two listings of lines        *)
(* 92 and 109 see it, after the scraper has written its files.             *)
(***************************************************************************)
\* the HTML files a run can find, in the order the directory lists them
HtmlFiles == <<"a.html", "b.html", "c.html">>

Elements(seq) == {seq[k] : k \in 1..Len(seq)}

\* list(dir.glob(pattern)): the files present, in the directory's order
Glob(listing, dir) == SelectSeq(listing, LAMBDA f : f \in dir)

\* what the scraping step does: not asked for, completes, or raises
ScrapeOutcomes == {"none", "ok", "error"}

\* scrape_sentences_for_period: the listing, or [] when the scraper raised
scrape_sentences_for_period(outcome, dir) ==
    IF outcome = "ok" THEN Glob(HtmlFiles, dir) ELSE <<>>

\* process_existing_files: the listing of the directory
process_existing_files(dir) == Glob(HtmlFiles, dir)

RECURSIVE Dedupe(_)
\* slip: the list is processed as collected
Dedupe_KeepsAll(files) == files

\* list(dict.fromkeys(html_files)): first occurrences, in order
Dedupe(files) ==
    IF files = <<>> THEN <<>>
    ELSE LET front == Dedupe(SubSeq(files, 1, Len(files) - 1))
             last  == files[Len(files)]
         IN  IF last \in Elements(front) THEN front ELSE Append(front, last)

\* what an HTML file parses to: every field, no number, no court, no main
\* text, or a parser error
HtmlKinds == {"complete", "no_number", "no_court", "no_text", "broken"}

\* Result.success() of one TextIngestorService.run()
EmbedOutcomes == {"success", "failed"}

\* force_chunking of the ingestor the loader builds (line 144)
LoaderForceChunking == TRUE

\* ingest_file returning None
NoRecord == [returned |-> FALSE, number |-> FALSE, court |-> FALSE,
             short_embeddings_attributes |-> "unset",
             long_embeddings_attributes |-> "unset", runs |-> <<>>]

\* lines 35-77: the attributes zipped from a successful Result, [] after a
\* failed one; the record is kept either way
AttributesOf(rec, short_run, full_run) ==
    [rec EXCEPT !.short_embeddings_attributes =
                    IF short_run = "success" THEN "zipped" ELSE "empty",
                !.long_embeddings_attributes =
                    IF full_run = "success" THEN "zipped" ELSE "empty",
                !.runs = <<short_run, full_run>>]

\* SentenceHTMLIngestor.ingest_file: None for a missing file and for any
\* exception; the else branch of line 82 calls logger, a name the module
\* does not define, so it ends in the except clause of line 94
SentenceHTMLIngestor_ingest_file(exists, kind, force, short_run, full_run) ==
    IF ~exists THEN NoRecord
    ELSE IF kind = "broken" THEN NoRecord
    ELSE IF kind # "no_text" /\ force
         THEN AttributesOf([NoRecord EXCEPT !.returned = TRUE,
                                            !.number = (kind # "no_number"),
                                            !.court = (kind # "no_court")],
                           short_run, full_run)
         ELSE NoRecord

\* slip: only the number is required
SentenceValid_NumberOnly(rec) == rec.number

\* line 186: both required fields are truthy
SentenceValid(rec) == rec.number /\ rec.court

\* the content API's answer to a post: accepted, refused, or no connection
ApiAnswers == {"ok", "rejected", "error"}

\* slip: True for every answer the API gives, whatever its status
send_sentence_AnyAnswer(answer) == answer # "error"

\* send_sentence: True only for response.ok
send_sentence(answer) == answer = "ok"

\* lines 195-207: the JSON is written and the HTML unlinked, or one of the
\* two raises and the except clause only prints
CleanupOutcomes == {"done", "save_failed", "unlink_failed"}

InitSentences ==
    /\ CoreIdle
    /\ PairIdle
    /\ NormsIdle
    /\ ScraperIdle
    /\ sentences_pc = "start"
    /\ scrape \in ScrapeOutcomes
    /\ process_existing \in BOOLEAN
    /\ sentences_html_dir \in SUBSET Elements(HtmlFiles)
    /\ sentences_json_dir = {}
    /\ found_files = <<>>
    /\ html_files = <<>>
    /\ sentence_log = <<>>
    /\ sentences_successful = 0
    /\ sentences_failed = 0

\* lines 147-167: the work list, or the early return of line 163
CollectHtmlFiles ==
    /\ sentences_pc = "start"
    /\ LET scraped_files  == scrape_sentences_for_period(scrape, sentences_html_dir)
           existing_files == IF process_existing
                             THEN process_existing_files(sentences_html_dir)
                             ELSE <<>>
           found          == scraped_files \o existing_files
       IN  /\ found_files' = found
           /\ html_files' = IF found = <<>> THEN <<>> ELSE Dedupe(found)
           /\ sentences_pc' = IF found = <<>> THEN "end" ELSE "loop"
    /\ UNCHANGED <<scrape, process_existing, sentences_html_dir, sentences_json_dir,
                   sentence_log, sentences_successful, sentences_failed>>
    /\ UNCHANGED <<core_vars, pair_vars, norm_vars, scraper_vars>>

\* the loop of line 173 is at a file
AtHtmlFile == sentences_pc = "loop" /\ Len(sentence_log) < Len(html_files)

html_file == html_files[Len(sentence_log) + 1]

\* no request was made to the content API
NotPosted == "not_posted"

\* the entry of one iteration
SentenceEntry(rec, kind, answer, sent, counted, deleted) ==
    [file |-> html_file, kind |-> kind, runs |-> rec.runs,
     returned |-> rec.returned, posted |-> answer # NotPosted, answer |-> answer,
     sent |-> sent, counted |-> counted, html_deleted |-> deleted]

\* an iteration that ends in "failed += 1" and leaves the directories alone
SentenceFailed(rec, kind, answer) ==
    /\ sentence_log' = Append(sentence_log,
                              SentenceEntry(rec, kind, answer, FALSE, "failed", FALSE))
    /\ sentences_failed' = sentences_failed + 1
    /\ UNCHANGED <<sentences_pc, scrape, process_existing, sentences_html_dir,
                   sentences_json_dir, found_files, html_files, sentences_successful>>
    /\ UNCHANGED <<core_vars, pair_vars, norm_vars, scraper_vars>>

\* lines 211-213: an exception in the try body (file.exists() of line 22 of
\* the ingestor is outside its own try and raises PermissionError)
SentenceRaises ==
    /\ AtHtmlFile
    /\ SentenceFailed(NoRecord, "unknown", NotPosted)

\* lines 180-183: ingest_file returned None
SentenceNotIngested ==
    /\ AtHtmlFile
    /\ \E kind \in HtmlKinds, short_run \in EmbedOutcomes, full_run \in EmbedOutcomes :
          LET rec == SentenceHTMLIngestor_ingest_file(html_file \in sentences_html_dir,
                         kind, LoaderForceChunking, short_run, full_run)
          IN  /\ ~rec.returned
              /\ SentenceFailed(rec, kind, NotPosted)

\* lines 186-189: number or court is missing
SentenceInvalid ==
    /\ AtHtmlFile
    /\ \E kind \in HtmlKinds, short_run \in EmbedOutcomes, full_run \in EmbedOutcomes :
          LET rec == SentenceHTMLIngestor_ingest_file(html_file \in sentences_html_dir,
                         kind, LoaderForceChunking, short_run, full_run)
          IN  /\ rec.returned
              /\ ~SentenceValid(rec)
              /\ SentenceFailed(rec, kind, NotPosted)

\* lines 192, 208-209: the record is posted and send_sentence returns False
SentenceRejected ==
    /\ AtHtmlFile
    /\ \E kind \in HtmlKinds, short_run \in EmbedOutcomes, full_run \in EmbedOutcomes,
          answer \in ApiAnswers :
          LET rec == SentenceHTMLIngestor_ingest_file(html_file \in sentences_html_dir,
                         kind, LoaderForceChunking, short_run, full_run)
          IN  /\ rec.returned
              /\ SentenceValid(rec)
              /\ ~send_sentence(answer)
              /\ SentenceFailed(rec, kind, answer)

\* lines 192-207: the record is posted, counted, saved as JSON, and its HTML
\* file unlinked
SentenceSent ==
    /\ AtHtmlFile
    /\ \E kind \in HtmlKinds, short_run \in EmbedOutcomes, full_run \in EmbedOutcomes,
          answer \in ApiAnswers, cleanup \in CleanupOutcomes :
          LET rec == SentenceHTMLIngestor_ingest_file(html_file \in sentences_html_dir,
                         kind, LoaderForceChunking, short_run, full_run)
          IN  /\ rec.returned
              /\ SentenceValid(rec)
              /\ send_sentence(answer)
              /\ sentences_json_dir' = IF cleanup = "save_failed"
                                       THEN sentences_json_dir
                                       ELSE sentences_json_dir \cup {html_file}
              /\ sentences_html_dir' = IF cleanup = "done"
                                       THEN sentences_html_dir \ {html_file}
                                       ELSE sentences_html_dir
              /\ sentence_log' = Append(sentence_log,
                                        SentenceEntry(rec, kind, answer, TRUE, "successful",
                                                      cleanup = "done"))
    /\ sentences_successful' = sentences_successful + 1
    /\ UNCHANGED <<sentences_pc, scrape, process_existing, found_files, html_files,
                   sentences_failed>>
    /\ UNCHANGED <<core_vars, pair_vars, norm_vars, scraper_vars>>

\* lines 215-224: the loop is over, the summary is printed
SentencesSummary ==
    /\ sentences_pc = "loop"
    /\ Len(sentence_log) = Len(html_files)
    /\ sentences_pc' = "end"
    /\ UNCHANGED <<scrape, process_existing, sentences_html_dir, sentences_json_dir,
                   found_files, html_files, sentence_log, sentences_successful,
                   sentences_failed>>
    /\ UNCHANGED <<core_vars, pair_vars, norm_vars, scraper_vars>>

NextSentences ==
    \/ CollectHtmlFiles
    \/ SentenceRaises
    \/ SentenceNotIngested
    \/ SentenceInvalid
    \/ SentenceRejected
    \/ SentenceSent
    \/ SentencesSummary

SpecSentences == InitSentences /\ [][NextSentences]_vars

(***************************************************************************)
(* The norms batch loader (load_normas.py:193-359): the loop over the      *)
(* scraped URLs, then the loop over the JSON files of NORMS_JSON_DIR, with *)
(* NormsJsonIngestor.ingest_file (norms_json_ingestor.py:30-69).           *)
(* norms_links_file is the links file as line 136 reads it, after the      *)
(* scraper has written it.                                                 *)
(***************************************************************************)
\* the JSON files a run can find, in the order the directory lists them
JsonFiles == <<"a.json", "b.json", "c.json">>

\* the URLs the scraper can list, in the order of the links file
Urls == <<"url_1", "url_2">>

\* what a JSON file or a fetched URL holds: a norm with an identifier
\* (number, title or impo_url), a norm with none of the three, or no
\* loadable norm
NormKinds == {"identified", "anonymous", "broken"}

\* the norm types a caller passes; "international" is the default of line 196
NormTypes == {"law", "decree", "code", "international"}

SCRAPER_TASK_CONFIG == [code |-> 8, law |-> 5, decree |-> 6]

API_NORMTYPE_IDS_RAILS == [law |-> 2, decree |-> 3, code |-> 1]

\* line 328: API_NORMTYPE_IDS_RAILS.get(norm_type) is truthy
NormTypeValid(t) == t \in DOMAIN API_NORMTYPE_IDS_RAILS

\* scrape_norms_for_period: the lines of the links file; [] for a norm type
\* without scraper id and when the scraper raised
scrape_norms_for_period(outcome, t, links) ==
    IF outcome = "ok" /\ t \in DOMAIN SCRAPER_TASK_CONFIG THEN links ELSE <<>>

\* process_existing_json_files: the listing of the directory
process_existing_json_files(dir) == Glob(JsonFiles, dir)

\* NormsJsonIngestor.ingest_file: the except clause of line 64 calls print
\* with exc_info, which print does not accept, so an error leaves the method
\* as a TypeError instead of the None of line 69
NormsJsonIngestor_ingest_file(kind) ==
    [raises |-> kind = "broken", identified |-> kind = "identified"]

\* the answer to the GET of line 171
FetchOutcomes == {"fetched", "http_error"}

\* fetch_and_process_norm_from_url: the ingested norm, or None when the GET
\* or ingest_file raised (line 189)
fetch_and_process_norm_from_url(fetch, kind) ==
    [returned   |-> fetch = "fetched" /\ ~NormsJsonIngestor_ingest_file(kind).raises,
     identified |-> NormsJsonIngestor_ingest_file(kind).identified]

\* line 322: any([number, title, impo_url])
NormIdentified(rec) == rec.identified

\* send_norm: True only for status 200 or 201
send_norm(answer) == answer = "ok"

\* lines 304-319: the copy is written and the original unlinked, or one of
\* the two raises and the except clause only prints
SaveOutcomes == {"done", "save_failed", "unlink_failed"}

\* line 316: the original is unlinked as soon as the copy is written,
\* before the validations and the send
OriginalUnlinked(save) == save = "done"

\* remove_processed_urls_from_file: the lines that are not in processed_urls
remove_processed_urls_from_file(tracked, links) ==
    IF tracked = <<>> THEN links
    ELSE SelectSeq(links, LAMBDA u : u \notin Elements(tracked))

InitNorms ==
    /\ CoreIdle
    /\ PairIdle
    /\ SentencesIdle
    /\ ScraperIdle
    /\ norms_pc = "start"
    /\ norm_type \in NormTypes
    /\ norms_process_existing \in BOOLEAN
    /\ norms_json_dir \in SUBSET Elements(JsonFiles)
    /\ norms_processed_dir = {}
    /\ json_files_to_process = <<>>
    /\ norm_log = <<>>
    /\ norms_successful = 0
    /\ norms_failed = 0
    /\ norms_scrape \in ScrapeOutcomes
    /\ norms_links_file \in {Glob(Urls, listed) : listed \in SUBSET Elements(Urls)}
    /\ urls_to_process = <<>>
    /\ url_log = <<>>
    /\ processed_urls = <<>>

\* lines 213-237: the two work lists, or the early return of line 229
CollectJsonFiles ==
    /\ norms_pc = "start"
    /\ LET scraped_urls   == scrape_norms_for_period(norms_scrape, norm_type,
                                                     norms_links_file)
           existing_files == IF norms_process_existing
                             THEN process_existing_json_files(norms_json_dir)
                             ELSE <<>>
       IN  /\ urls_to_process' = scraped_urls
           /\ json_files_to_process' = existing_files
           /\ norms_pc' = IF scraped_urls = <<>> /\ existing_files = <<>>
                          THEN "end" ELSE "loop"
    /\ UNCHANGED <<norm_type, norms_process_existing, norms_json_dir,
                   norms_processed_dir, norm_log, norms_successful, norms_failed,
                   norms_scrape, norms_links_file, url_log, processed_urls>>
    /\ UNCHANGED <<core_vars, pair_vars, sentence_vars, scraper_vars>>

\* the loop of line 240 is at a URL
AtUrl == norms_pc = "loop" /\ Len(url_log) < Len(urls_to_process)

url == urls_to_process[Len(url_log) + 1]

\* one iteration of the URL loop: the entry, the counters, the saved copy;
\* nothing in lines 240-289 appends to processed_urls
UrlIteration(kind, returned, saved, answer) ==
    /\ url_log' = Append(url_log,
                         [url |-> url, kind |-> kind, returned |-> returned,
                          posted |-> answer # NotPosted, answer |-> answer,
                          sent |-> send_norm(answer),
                          counted |-> IF send_norm(answer) THEN "successful"
                                      ELSE "failed"])
    /\ norms_successful' = IF send_norm(answer) THEN norms_successful + 1
                           ELSE norms_successful
    /\ norms_failed' = IF send_norm(answer) THEN norms_failed ELSE norms_failed + 1
    /\ norms_processed_dir' = IF saved THEN norms_processed_dir \cup {url}
                              ELSE norms_processed_dir
    /\ UNCHANGED <<norms_pc, norm_type, norms_process_existing, norms_json_dir,
                   json_files_to_process, norm_log, norms_scrape, norms_links_file,
                   urls_to_process, processed_urls>>
    /\ UNCHANGED <<core_vars, pair_vars, sentence_vars, scraper_vars>>

\* lines 245-250: fetch_and_process_norm_from_url returned None
UrlNotFetched ==
    /\ AtUrl
    /\ \E fetch \in FetchOutcomes, kind \in NormKinds :
          /\ ~fetch_and_process_norm_from_url(fetch, kind).returned
          /\ UrlIteration(IF fetch = "fetched" THEN kind ELSE "unknown",
                          FALSE, FALSE, NotPosted)

\* lines 252-271: saved, then none of the identifiers is there
UrlUnidentified ==
    /\ AtUrl
    /\ \E fetch \in FetchOutcomes, kind \in NormKinds, saved \in BOOLEAN :
          /\ fetch_and_process_norm_from_url(fetch, kind).returned
          /\ ~NormIdentified(fetch_and_process_norm_from_url(fetch, kind))
          /\ UrlIteration(kind, TRUE, saved, NotPosted)

\* lines 252-285: saved, posted, and send_norm returns False (the check of
\* lines 274-277 cannot fail here: a norm type without API type id has no
\* scraper id either, so it comes with no URL)
UrlRejected ==
    /\ AtUrl
    /\ \E fetch \in FetchOutcomes, kind \in NormKinds, saved \in BOOLEAN,
          answer \in ApiAnswers :
          /\ fetch_and_process_norm_from_url(fetch, kind).returned
          /\ NormIdentified(fetch_and_process_norm_from_url(fetch, kind))
          /\ NormTypeValid(norm_type)
          /\ ~send_norm(answer)
          /\ UrlIteration(kind, TRUE, saved, answer)

\* lines 252-282: saved, posted, and send_norm returns True
UrlSent ==
    /\ AtUrl
    /\ \E fetch \in FetchOutcomes, kind \in NormKinds, saved \in BOOLEAN,
          answer \in ApiAnswers :
          /\ fetch_and_process_norm_from_url(fetch, kind).returned
          /\ NormIdentified(fetch_and_process_norm_from_url(fetch, kind))
          /\ NormTypeValid(norm_type)
          /\ send_norm(answer)
          /\ UrlIteration(kind, TRUE, saved, answer)

\* the loop of line 292 is at a file
AtJsonFile ==
    /\ norms_pc = "loop"
    /\ Len(url_log) = Len(urls_to_process)
    /\ Len(norm_log) < Len(json_files_to_process)

json_file == json_files_to_process[Len(norm_log) + 1]

\* one iteration: the entry, the counters and the two directories
NormIteration(kind, save, posted, sent) ==
    /\ norm_log' = Append(norm_log,
                          [file |-> json_file, kind |-> kind, save |-> save,
                           posted |-> posted, sent |-> sent,
                           counted |-> IF sent THEN "successful" ELSE "failed",
                           original_deleted |-> OriginalUnlinked(save)])
    /\ norms_successful' = IF sent THEN norms_successful + 1 ELSE norms_successful
    /\ norms_failed' = IF sent THEN norms_failed ELSE norms_failed + 1
    /\ norms_processed_dir' = IF save \in {"done", "unlink_failed"}
                              THEN norms_processed_dir \cup {json_file}
                              ELSE norms_processed_dir
    /\ norms_json_dir' = IF OriginalUnlinked(save)
                         THEN norms_json_dir \ {json_file}
                         ELSE norms_json_dir
    /\ UNCHANGED <<norms_pc, norm_type, norms_process_existing, json_files_to_process,
                   norms_scrape, norms_links_file, urls_to_process, url_log,
                   processed_urls>>
    /\ UNCHANGED <<core_vars, pair_vars, sentence_vars, scraper_vars>>

\* lines 297, 341-343: ingest_file raises, nothing is saved or unlinked
NormIngestRaises ==
    /\ AtJsonFile
    /\ \E kind \in NormKinds :
          /\ NormsJsonIngestor_ingest_file(kind).raises
          /\ NormIteration(kind, "not_reached", FALSE, FALSE)

\* lines 304-325: saved and unlinked, then none of the identifiers is there
NormUnidentified ==
    /\ AtJsonFile
    /\ \E kind \in NormKinds, save \in SaveOutcomes :
          /\ ~NormsJsonIngestor_ingest_file(kind).raises
          /\ ~NormIdentified(NormsJsonIngestor_ingest_file(kind))
          /\ NormIteration(kind, save, FALSE, FALSE)

\* lines 304-331: saved and unlinked, then norm_type has no API type id
NormTypeRejected ==
    /\ AtJsonFile
    /\ \E kind \in NormKinds, save \in SaveOutcomes :
          /\ ~NormsJsonIngestor_ingest_file(kind).raises
          /\ NormIdentified(NormsJsonIngestor_ingest_file(kind))
          /\ ~NormTypeValid(norm_type)
          /\ NormIteration(kind, save, FALSE, FALSE)

\* lines 304-339: saved and unlinked, posted, and send_norm returns False
NormRejected ==
    /\ AtJsonFile
    /\ \E kind \in NormKinds, save \in SaveOutcomes, answer \in ApiAnswers :
          /\ ~NormsJsonIngestor_ingest_file(kind).raises
          /\ NormIdentified(NormsJsonIngestor_ingest_file(kind))
          /\ NormTypeValid(norm_type)
          /\ ~send_norm(answer)
          /\ NormIteration(kind, save, TRUE, FALSE)

\* lines 304-336: saved and unlinked, posted, and send_norm returns True
NormSent ==
    /\ AtJsonFile
    /\ \E kind \in NormKinds, save \in SaveOutcomes, answer \in ApiAnswers :
          /\ ~NormsJsonIngestor_ingest_file(kind).raises
          /\ NormIdentified(NormsJsonIngestor_ingest_file(kind))
          /\ NormTypeValid(norm_type)
          /\ send_norm(answer)
          /\ NormIteration(kind, save, TRUE, TRUE)

\* lines 345-359: the summary, then the links file is rewritten without
\* the processed URLs when there are any and a period was scraped
NormsSummary ==
    /\ norms_pc = "loop"
    /\ Len(url_log) = Len(urls_to_process)
    /\ Len(norm_log) = Len(json_files_to_process)
    /\ norms_pc' = "end"
    /\ norms_links_file' = IF processed_urls # <<>> /\ norms_scrape # "none"
                           THEN remove_processed_urls_from_file(processed_urls,
                                                                norms_links_file)
                           ELSE norms_links_file
    /\ UNCHANGED <<norm_type, norms_process_existing, norms_json_dir,
                   norms_processed_dir, json_files_to_process, norm_log,
                   norms_successful, norms_failed, norms_scrape, urls_to_process,
                   url_log, processed_urls>>
    /\ UNCHANGED <<core_vars, pair_vars, sentence_vars, scraper_vars>>

NextNorms ==
    \/ CollectJsonFiles
    \/ UrlNotFetched
    \/ UrlUnidentified
    \/ UrlRejected
    \/ UrlSent
    \/ NormIngestRaises
    \/ NormUnidentified
    \/ NormTypeRejected
    \/ NormRejected
    \/ NormSent
    \/ NormsSummary

SpecNorms == InitNorms /\ [][NextNorms]_vars

(***************************************************************************)
(* A run of either batch loader                                            *)
(***************************************************************************)
InitLoaders == InitSentences \/ InitNorms

NextLoaders == NextSentences \/ NextNorms

SpecLoaders == InitLoaders /\ [][NextLoaders]_vars

(***************************************************************************)
(* The scraping session                                                    *)
(***************************************************************************)
\* scrape_sentences(start, end, output_dir): retry_count defaults to 0
InitScraper ==
    /\ CoreIdle
    /\ PairIdle
    /\ SentencesIdle
    /\ NormsIdle
    /\ scraper_pc = "call"
    /\ retry_count = 0
    /\ calls = 1
    /\ reported_max = FALSE
    /\ total_pages = 0
    /\ current_page = 0
    /\ total_rows = 0
    /\ current_row = 0
    /\ popup_retry_count = 0
    /\ row_written = FALSE
    /\ row_log = <<>>
    /\ output_files = {}

\* lines 39-173: the search is submitted and the first page of results read
OpenResults ==
    /\ scraper_pc = "call"
    /\ total_pages' \in PageCounts
    /\ total_rows' \in RowCounts
    /\ current_page' = 1
    /\ current_row' = 1
    /\ popup_retry_count' = 0
    /\ row_written' = FALSE
    /\ scraper_pc' = "rows"
    /\ UNCHANGED <<retry_count, calls, reported_max, row_log, output_files>>
    /\ UNCHANGED <<core_vars, pair_vars, sentence_vars, norm_vars>>

\* lines 130-141, 309-314: the search has no results, the session ends
NoResults ==
    /\ scraper_pc = "call"
    /\ scraper_pc' = "returned"
    /\ UNCHANGED <<retry_count, calls, reported_max, total_pages, current_page,
                   total_rows, current_row, popup_retry_count, row_written,
                   row_log, output_files>>
    /\ UNCHANGED <<core_vars, pair_vars, sentence_vars, norm_vars>>

\* the loop of line 176 is at a row
AtRow == scraper_pc = "rows" /\ current_page <= total_pages /\ current_row <= total_rows

\* the file of the current row
RowFile == <<current_page, current_row>>

\* lines 266-272: the popup loop is left, the row is done
RowDone(attempts, saved, written) ==
    /\ row_log' = Append(row_log, [page |-> current_page, row |-> current_row,
                                   attempts |-> attempts, saved |-> saved,
                                   written |-> written])
    /\ current_row' = current_row + 1
    /\ popup_retry_count' = 0
    /\ row_written' = FALSE

\* lines 209-242: the popup opens, its body is written to the file, break
PopupSaved ==
    /\ AtRow
    /\ popup_retry_count < max_popup_retries
    /\ output_files' = output_files \cup {RowFile}
    /\ RowDone(popup_retry_count + 1, TRUE, TRUE)
    /\ UNCHANGED <<scraper_pc, retry_count, calls, reported_max, total_pages,
                   current_page, total_rows>>
    /\ UNCHANGED <<core_vars, pair_vars, sentence_vars, norm_vars>>

\* slip: the row is left after the first failed attempt
GivesUp_AtOnce(count) == count >= 1

\* line 258: popup_retry_count >= max_popup_retries
GivesUp(count) == count >= max_popup_retries

\* lines 252-265: an attempt raises; the row is retried after a backoff, or
\* skipped once the count reaches max_popup_retries
PopupFails ==
    /\ AtRow
    /\ popup_retry_count < max_popup_retries
    /\ \E failure \in PopupFailures :
          LET written == row_written \/ failure = "after_write"
          IN  /\ output_files' = IF failure = "after_write"
                                 THEN output_files \cup {RowFile}
                                 ELSE output_files
              /\ IF GivesUp(popup_retry_count + 1)
                 THEN RowDone(popup_retry_count + 1, FALSE, written)
                 ELSE /\ popup_retry_count' = popup_retry_count + 1
                      /\ row_written' = written
                      /\ UNCHANGED <<row_log, current_row>>
    /\ UNCHANGED <<scraper_pc, retry_count, calls, reported_max, total_pages,
                   current_page, total_rows>>
    /\ UNCHANGED <<core_vars, pair_vars, sentence_vars, norm_vars>>

\* lines 274-314: the next page is opened and retry_count reset; after the
\* last page the session ends and the function returns
NextPage ==
    /\ scraper_pc = "rows"
    /\ current_page <= total_pages
    /\ current_row > total_rows
    /\ current_page' = current_page + 1
    /\ retry_count' = 0
    /\ IF current_page + 1 <= total_pages
       THEN /\ total_rows' \in RowCounts
            /\ current_row' = 1
            /\ scraper_pc' = "rows"
       ELSE /\ UNCHANGED <<total_rows, current_row>>
            /\ scraper_pc' = "returned"
    /\ UNCHANGED <<calls, reported_max, total_pages, popup_retry_count, row_written,
                   row_log, output_files>>
    /\ UNCHANGED <<core_vars, pair_vars, sentence_vars, norm_vars>>

\* lines 315-333: an exception anywhere in the session outside the popup
\* loop (navigation fails three times, a selector times out, ...) reaches
\* the except clause
SessionFails ==
    /\ scraper_pc \in {"call", "rows"}
    /\ LET outcome == ExceptHandler(retry_count)
       IN  /\ scraper_pc' = CASE outcome = "TypeError" -> "raised"
                              [] outcome = "retry" -> "call"
                              [] OTHER -> "returned"
           /\ calls' = IF outcome = "retry" THEN calls + 1 ELSE calls
           /\ retry_count' = IF outcome = "retry" THEN retry_count + 1 ELSE retry_count
           /\ reported_max' = (reported_max \/ outcome = "give_up")
    /\ UNCHANGED <<total_pages, current_page, total_rows, current_row,
                   popup_retry_count, row_written, row_log, output_files>>
    /\ UNCHANGED <<core_vars, pair_vars, sentence_vars, norm_vars>>

NextScraper ==
    \/ OpenResults
    \/ NoResults
    \/ PopupSaved
    \/ PopupFails
    \/ NextPage
    \/ SessionFails

SpecScraper == InitScraper /\ [][NextScraper]_vars

(***************************************************************************)
(* Vocabulary of the properties                                            *)
(***************************************************************************)
\* the parameters split_document runs with in this ingestion
CurMaxTokens == EffMaxTokens(chunking_params)

CurOverlap == EffOverlap(chunking_params)

CurTokens == Tokenize(text)

\* the chunker was invoked
ChunkerInvoked == split_calls > 0

\* split_document returned to the constructor
SplitReturned == ChunkerInvoked /\ pc \in {"constructed", "done"}

\* overlap fractions as numbers
InUnitInterval(o) == 0 <= o[1] /\ o[1] < o[2]

FracLeq(o1, o2) == o1[1] * o2[2] <= o2[1] * o1[2]

Floor(p, q) == p \div q

HasVisibleChar(t) == \E k \in 1..Len(t) : t[k] # " "

StrictlyIncreasing(seq) == \A j, k \in 1..Len(seq) : j < k => seq[j] < seq[k]

\* the message names the status code
Mentions(message, status) == \E k \in 1..Len(message) : message[k] = ToString(status)

(***************************************************************************)
(* Properties                                                              *)
(***************************************************************************)

\* C1: an ingestion never raises to its caller; an error while deciding
\* whether to chunk or while splitting, both in the constructor, ends in a
\* failed Result like an error inside run().
C1_NeverRaisesToCaller == pc # "raised" /\ raised = NoError

\* C2: when the endpoint answers a non-200 status or the transport fails,
\* run() returns a Result with success() false and a non-empty error list,
\* and for a non-200 status the error message contains the status code.
C2_EndpointFailureGivesFailedResult ==
    (pc = "done" /\ (~response.transport_ok \/ response.status # 200)) =>
        /\ raised = NoError
        /\ ~result.success
        /\ Len(result.errors) > 0
        /\ response.transport_ok =>
              \E e \in 1..Len(result.errors) : Mentions(result.errors[e], response.status)

C2_Witness ==
    /\ pc = "done"
    /\ response.transport_ok
    /\ response.status = 500
    /\ ~result.success
    /\ Len(result.errors) = 1

\* C3: every Result returned with success() true has exactly as many
\* embeddings as documents; a 200 answer with another number of vectors
\* gives a failed Result.
C3_SuccessHasOneVectorPerDocument ==
    (pc = "done" /\ result.success) =>
        Len(result.data.embeddings) = Len(result.data.text)

\* C4: the chunker is invoked if and only if force_chunking is true or the
\* token count of the text is strictly greater than token_limit.
C4_ChunkerInvokedIffForcedOrOverLimit ==
    pc # "new" =>
        /\ split_calls <= 1
        /\ (split_calls = 1) <=> (force_chunking \/ Len(CurTokens) > token_limit)

C4_Witness ==
    /\ pc = "constructed"
    /\ ~force_chunking
    /\ Len(CurTokens) = token_limit
    /\ split_calls = 0
    /\ documents = <<text>>

\* C5: for every non-empty text whose token count T is at most
\* max_tokens - 5 and every overlap in [0,1), split returns exactly one
\* chunk, the whole text.
C5_OneChunkWhenTextFitsWindow ==
    (/\ SplitReturned
     /\ HasVisibleChar(text)
     /\ Len(CurTokens) <= CurMaxTokens - 5
     /\ InUnitInterval(CurOverlap)) =>
        /\ Len(documents) = 1
        /\ documents[1] = Decode(CurTokens)

\* C6: a chunking configuration whose step is less than 1 is rejected as a
\* configuration error; split never returns a chunk list for it.
C6_StepBelowOneIsRejected ==
    (ChunkerInvoked /\ StepOf(CurMaxTokens, CurOverlap) < 1) => pc = "raised"

C8_NoBlankChunk ==
    SplitReturned =>
        /\ \A k \in 1..Len(documents) : Strip(documents[k]) # <<>>
        /\ Len(documents) =
              Cardinality({k \in 1..Len(windows) : Strip(Decode(windows[k].tokens)) # <<>>})
        /\ Len(CurTokens) = 2 => documents = <<>>

C8_Witness ==
    /\ SplitReturned
    /\ documents # <<>>
    /\ \E k \in 1..Len(windows) :
          /\ k > 1
          /\ k < Len(windows)
          /\ windows[k].tokens # <<>>
          /\ Strip(Decode(windows[k].tokens)) = <<>>

\* C9: for a fixed text and fixed max_tokens the number of chunks is
\* non-decreasing in overlap over [0,1).
C9_ChunkCountMonotoneInOverlap ==
    (SplitReturned /\ InUnitInterval(CurOverlap)) =>
        \A o2 \in Overlaps :
            (InUnitInterval(o2) /\ FracLeq(CurOverlap, o2)) =>
                Len(documents) <= Len(split_document(text, CurMaxTokens, o2))

C9_Witness ==
    /\ SplitReturned
    /\ CurOverlap = <<0, 1>>
    /\ Len(documents) >= 2
    /\ Len(documents) < Len(split_document(text, CurMaxTokens, <<4, 5>>))

\* C10: for max_tokens > 5 and overlap in [0,1), split visits one window per
\* start offset i = 0, step, 2*step, ... below T with
\* step = (max_tokens-5) - floor((max_tokens-5)*overlap); each window is the
\* token range [i, min(i + max_tokens - 5, T)), no chunk holds more than
\* max_tokens - 5 tokens, and T = 2000, max_tokens = 512, overlap = 0.20
\* gives step 406 and the starts 0, 406, 812, 1218, 1624.
C10_WindowsFollowStartOffsets ==
    (SplitReturned /\ CurMaxTokens > 5 /\ InUnitInterval(CurOverlap)) =>
        LET W    == CurMaxTokens - 5
            step == W - Floor(W * CurOverlap[1], CurOverlap[2])
            T    == Len(CurTokens)
        IN  /\ Len(windows) = Cardinality({i \in 0..(T - 1) : i % step = 0})
            /\ \A k \in 1..Len(windows) :
                  LET i == (k - 1) * step
                  IN  /\ windows[k].start = i
                      /\ i < T
                      /\ windows[k].tokens = SubSeq(CurTokens, i + 1, Min(i + W, T))
            /\ \A k \in 1..Len(documents) : Len(documents[k]) <= W
            /\ (T = 2000 /\ CurMaxTokens = 512 /\ CurOverlap = <<1, 5>>) =>
                  /\ step = 406
                  /\ chunk_starts = <<0, 406, 812, 1218, 1624>>
                  /\ Len(documents) = 5

C10_Witness ==
    /\ SplitReturned
    /\ Len(CurTokens) = 2000
    /\ CurMaxTokens = 512
    /\ CurOverlap = <<1, 5>>
    /\ Len(documents) = 5
    /\ Len(documents[5]) < Len(documents[1])

\* C11: for any successful embedding call on a list of N chunks,
\* generate_embeddings returns exactly N vectors, and the i-th returned
\* vector is the embedding the endpoint produced for the i-th input chunk.
C11_OneVectorPerChunkInOrder ==
    (pc = "done" /\ ~generate_embeddings(response).raises) =>
        LET sent     == requests[1]
            returned == generate_embeddings(response).embeddings
        IN  /\ Len(returned) = Len(sent)
            /\ \A i \in 1..Len(sent) : returned[i] = Embedding(sent[i]).embedding

\* C12: each ingestion run issues exactly one request to the embedding
\* endpoint, carrying the entire document list, after the document list has
\* been built; no per-chunk request and no retry, whatever the outcome.
C12_OneRequestWithWholeList ==
    /\ pc \in {"new", "constructed", "raised"} => requests = <<>>
    /\ pc = "done" => requests = <<documents>>

C12_Witness ==
    /\ pc = "done"
    /\ ~result.success
    /\ Len(documents) >= 2
    /\ Len(requests) = 1
    /\ Len(requests[1]) = Len(documents)

\* C13: when an ingestion run fails, the returned Result has no result field
\* populated: record_id, record_type, the documents list and the embeddings
\* list are all absent from its data.
C13_FailedResultHasNoData ==
    (pc = "done" /\ ~result.success) => DOMAIN result.data = {}

C13_Witness ==
    /\ pc = "done"
    /\ ~result.success
    /\ Len(documents) >= 2
    /\ response.transport_ok
    /\ response.status = 200
    /\ DOMAIN result.data = {}

\* C14: with force_chunking false and a text whose token count does not
\* exceed the token limit, the document list is the single-element list with
\* the unmodified input text, and a successful Result holds exactly one
\* document and one embedding.
C14_UnchunkedTextGivesOneDocumentOneEmbedding ==
    (pc = "done" /\ ~force_chunking /\ Len(CurTokens) <= token_limit) =>
        /\ documents = <<text>>
        /\ result.success =>
              /\ result.data.text = <<text>>
              /\ Len(result.data.embeddings) = 1

\* C15: with force_chunking true, a successful Result has a documents list
\* and an embeddings list of the same length, and that length is the number
\* of chunks split returns for the same text and parameters.
C15_ForcedChunkingListsMatchSplit ==
    (pc = "done" /\ force_chunking /\ result.success) =>
        /\ Len(result.data.text) = Len(split_document(text, CurMaxTokens, CurOverlap))
        /\ Len(result.data.embeddings) = Len(split_document(text, CurMaxTokens, CurOverlap))

\* C16: when chunking fires, split is called with the caller's
\* chunking_params if provided and otherwise with max_tokens = 512 and
\* overlap = 0.20; a chunking_params that sets only one of the two keys
\* leaves the other at its default.
C16_SplitArgumentsFromParamsOrDefaults ==
    ChunkerInvoked =>
        /\ split_args.max_tokens =
              IF "max_tokens" \in DOMAIN chunking_params
              THEN chunking_params.max_tokens ELSE 512
        /\ split_args.overlap =
              IF "overlap" \in DOMAIN chunking_params
              THEN chunking_params.overlap ELSE <<1, 5>>

C16_Witness ==
    /\ ChunkerInvoked
    /\ DOMAIN chunking_params = {"overlap"}
    /\ chunking_params.overlap = <<1, 2>>
    /\ split_args = [max_tokens |-> 512, overlap |-> <<1, 2>>]

\* C17: each ingestion owns a freshly created Result: for any two ingestion
\* instances, in any order or interleaving of their runs, the data and
\* errors written by one are never visible in, and never change, the Result
\* of the other.
C17_ResultsAreNotShared ==
    \A i \in Services :
        /\ svc[i].pc = "constructed" => ResultOf(i) = NewResult
        /\ svc[i].pc = "done" =>
              LET out == generate_embeddings(svc[i].response)
              IN  /\ ResultOf(i).success = ~out.raises
                  /\ ResultOf(i).errors = IF out.raises THEN <<out.message>> ELSE <<>>
                  /\ DOMAIN ResultOf(i).data # {} =>
                        /\ ~out.raises
                        /\ ResultOf(i).data.text = svc[i].documents
                        /\ ResultOf(i).data.embeddings = out.embeddings
                  /\ DOMAIN ResultOf(i).data = {} => out.raises
        /\ \A j \in Services \ {i} :
              (svc[i].pc # "none" /\ svc[j].pc # "none") =>
                  /\ svc[i].data # svc[j].data
                  /\ svc[i].errors # svc[j].errors

C17_Witness ==
    /\ svc[1].pc = "done"
    /\ svc[2].pc = "done"
    /\ ResultOf(1).success
    /\ ~ResultOf(2).success
    /\ DOMAIN ResultOf(2).data = {}
    /\ ResultOf(1).errors = <<>>

\* C18: in the sentence batch loader every distinct HTML file of the work
\* list is ingested exactly once per run, in list order; a failure of one
\* file (nothing ingested, validation fails, the send fails, an exception)
\* never stops the loop, and a file listed both by scraping and by the
\* existing-files scan is not processed twice.
C18_EachFileIngestedOnceInOrder ==
    sentences_pc \in {"loop", "end"} =>
        /\ Elements(html_files) = Elements(found_files)
        /\ \A j, k \in 1..Len(html_files) : html_files[j] = html_files[k] => j = k
        /\ \A j, k \in 1..Len(html_files) :
              j < k => \E m \in 1..Len(found_files) :
                          /\ found_files[m] = html_files[j]
                          /\ \A n \in 1..m : found_files[n] # html_files[k]
        /\ Len(sentence_log) <= Len(html_files)
        /\ \A k \in 1..Len(sentence_log) : sentence_log[k].file = html_files[k]
        /\ sentences_successful + sentences_failed = Len(sentence_log)
        /\ sentences_pc = "end" => Len(sentence_log) = Len(html_files)

C18_Witness ==
    /\ sentences_pc = "end"
    /\ Len(found_files) > Len(html_files)
    /\ Len(html_files) = 3
    /\ sentence_log[1].counted = "failed"
    /\ sentence_log[1].posted
    /\ ~sentence_log[2].returned
    /\ sentence_log[3].counted = "successful"

\* C19: when an embedding run for a sentence returns a failed Result, the
\* sentence is not posted to the content API in that run and its HTML file
\* is kept.
C19_FailedEmbeddingIsNotPosted ==
    \A k \in 1..Len(sentence_log) :
        (\E r \in 1..Len(sentence_log[k].runs) : sentence_log[k].runs[r] = "failed") =>
            /\ ~sentence_log[k].posted
            /\ sentence_log[k].file \in sentences_html_dir

\* C20: in both batch loaders a document counted as failed still has its
\* source artifact on disk after the run; the HTML file of load_sentences and
\* the original JSON file of load_normas are deleted only for documents that
\* were sent to the API successfully.
C20_FailedDocumentKeepsItsSource ==
    /\ \A k \in 1..Len(sentence_log) :
          /\ sentence_log[k].counted = "failed" => sentence_log[k].file \in sentences_html_dir
          /\ sentence_log[k].html_deleted => sentence_log[k].sent
    /\ \A k \in 1..Len(norm_log) :
          /\ norm_log[k].counted = "failed" => norm_log[k].file \in norms_json_dir
          /\ norm_log[k].original_deleted => norm_log[k].sent

\* the token position one past the last token of window k
WindowEnd(k) == windows[k].start + Len(windows[k].tokens)

\* C22: for every overlap in [0,1) and max_tokens > 5 the windows of split
\* cover every token position 0..T-1 at least once, with no gap between
\* consecutive windows, and with overlap 0.0 the windows are pairwise
\* disjoint and contiguous.
C22_WindowsCoverEveryToken ==
    (SplitReturned /\ CurMaxTokens > 5 /\ InUnitInterval(CurOverlap)) =>
        /\ \A p \in 0..(Len(CurTokens) - 1) :
              \E k \in 1..Len(windows) : windows[k].start <= p /\ p < WindowEnd(k)
        /\ \A k \in 1..(Len(windows) - 1) : windows[k + 1].start <= WindowEnd(k)
        /\ CurOverlap[1] = 0 =>
              \A k \in 1..(Len(windows) - 1) : windows[k + 1].start = WindowEnd(k)

C22_Witness ==
    /\ SplitReturned
    /\ CurMaxTokens = 7
    /\ CurOverlap = <<0, 1>>
    /\ Len(CurTokens) = 6
    /\ Len(windows) = 3
    /\ windows[3].start = 4

\* the token position one past the last token of the k-th returned chunk
ChunkEnd(k) == Min(chunk_starts[k] + CurMaxTokens - 5, Len(CurTokens))

\* C23: split never emits a redundant chunk: for every T, max_tokens and
\* overlap in [0,1), no chunk's token range lies entirely inside the token
\* range of the chunk before it.
C23_NoChunkInsideItsPredecessor ==
    (SplitReturned /\ InUnitInterval(CurOverlap)) =>
        \A k \in 2..Len(chunk_starts) : ChunkEnd(k) > ChunkEnd(k - 1)

\* the entries of the sentence loop with the given count
SentencesCounted(c) == {k \in 1..Len(sentence_log) : sentence_log[k].counted = c}

\* C28: in load_sentences_for_period every processed file increments exactly
\* one of the two counters: at every point of the loop successful + failed
\* is the number of files handled so far, at the end it is the number of
\* distinct files, and a file is counted successful only if its API send
\* returned success.
C28_EveryFileCountedOnce ==
    /\ sentences_successful = Cardinality(SentencesCounted("successful"))
    /\ sentences_failed = Cardinality(SentencesCounted("failed"))
    /\ sentences_successful + sentences_failed = Len(sentence_log)
    /\ sentences_pc = "end" =>
          sentences_successful + sentences_failed = Cardinality(Elements(found_files))
    /\ \A k \in SentencesCounted("successful") : sentence_log[k].answer = "ok"

C28_Witness ==
    /\ sentences_pc = "end"
    /\ Len(found_files) = 6
    /\ sentences_successful = 1
    /\ sentences_failed = 2
    /\ \E k \in SentencesCounted("failed") : sentence_log[k].answer = "rejected"

\* C30: SentenceHTMLIngestor.ingest_file on an existing HTML file whose
\* parsed main text is empty, or with force_chunking false, returns the
\* parsed record with short_embeddings_attributes and
\* long_embeddings_attributes both empty, without calling the embedding
\* service and without returning None.
C30_NoTextStillReturnsTheRecord ==
    \A k \in 1..Len(sentence_log) :
        (sentence_log[k].kind = "no_text" \/ ~LoaderForceChunking) =>
            /\ sentence_log[k].returned
            /\ sentence_log[k].runs = <<>>

\* C25: after load_norms_for_period runs with a scraping period, every URL
\* whose norm was sent to the API successfully has been removed from the
\* links file, and every URL that failed is still listed there.
C25_SentUrlsLeaveTheLinksFile ==
    (norms_pc = "end" /\ norms_scrape = "ok") =>
        \A k \in 1..Len(url_log) :
            /\ url_log[k].counted = "successful" =>
                  url_log[k].url \notin Elements(norms_links_file)
            /\ url_log[k].counted = "failed" =>
                  url_log[k].url \in Elements(norms_links_file)

\* C29: no record that fails minimum-field validation is ever posted to the
\* content API: a sentence is sent only if its number and court are both
\* non-empty, and a norm only if it has at least one of number, title or
\* impo_url and its norm type maps to an API type id.
C29_OnlyValidRecordsArePosted ==
    /\ \A k \in 1..Len(sentence_log) :
          sentence_log[k].posted =>
              /\ sentence_log[k].returned
              /\ sentence_log[k].kind \notin {"no_number", "no_court"}
    /\ \A k \in 1..Len(url_log) :
          url_log[k].posted =>
              /\ url_log[k].kind = "identified"
              /\ norm_type \in DOMAIN API_NORMTYPE_IDS_RAILS
    /\ \A k \in 1..Len(norm_log) :
          norm_log[k].posted =>
              /\ norm_log[k].kind = "identified"
              /\ norm_type \in DOMAIN API_NORMTYPE_IDS_RAILS

C29_Witness ==
    /\ norms_pc = "end"
    /\ Len(url_log) = 2
    /\ url_log[1].kind = "anonymous"
    /\ ~url_log[1].posted
    /\ url_log[2].posted
    /\ Len(norm_log) = 2
    /\ norm_log[1].kind = "anonymous"
    /\ ~norm_log[1].posted
    /\ norm_log[2].sent

\* the endpoint answered 200 with one vector per document it was sent
AnsweredInFull == response.transport_ok /\ response.has_data /\ response.data = HonestData(documents)

\* the two strings are the same text to the tokenizer
SameText(a, b) == Tokenize(a) = Tokenize(b)

\* C21: every embedding attribute built for a sentence pairs a chunk with
\* the vector computed for exactly that chunk text: the i-th short attribute
\* holds the i-th chunk and the i-th vector, and the long attribute holds
\* the full text with a vector computed from the full text, for texts of
\* every length including those above the model's token limit.  Stated for
\* runs the endpoint answered in full; the short attributes are those of a
\* forced-chunking run, the long attribute that of a run constructed without
\* chunking parameters and without force_chunking.
C21_AttributesPairChunkWithItsVector ==
    (pc = "done" /\ result.success /\ AnsweredInFull /\ text # <<>>) =>
        /\ force_chunking =>
              /\ Len(ShortEmbeddingsAttributes(result)) = Len(documents)
              /\ \A k \in 1..Len(documents) :
                    /\ ShortEmbeddingsAttributes(result)[k].chunk = documents[k]
                    /\ ShortEmbeddingsAttributes(result)[k].vector =
                           Embedding(documents[k]).embedding
        /\ (~force_chunking /\ chunking_params = EmptyDict) =>
              /\ Len(LongEmbeddingsAttributes(text, result)) = 1
              /\ LongEmbeddingsAttributes(text, result)[1].chunk = text
              /\ SameText(LongEmbeddingsAttributes(text, result)[1].vector,
                          Embedding(text).embedding)

\* C24: for every article in a norm's processed_articles, the article's
\* text and the chunk of its single long embedding attribute both equal the
\* original article text in full, whatever its length; an article is never
\* published with its text cut down to its first chunk.  Stated for runs the
\* endpoint answered in full, constructed as _process_articles constructs
\* them.
C24_ArticleKeepsItsFullText ==
    (/\ pc = "done"
     /\ result.success
     /\ AnsweredInFull
     /\ text # <<>>
     /\ ~force_chunking
     /\ chunking_params = EmptyDict
     /\ Len(result.data.embeddings) > 0) =>
        /\ SameText(ProcessedArticle(result).text, text)
        /\ SameText(ProcessedArticle(result).long_embeddings_attributes[1].chunk, text)

\* C26: scrape_sentences retries a failing session at most MAX_RETRIES (5)
\* times: for any sequence of failures one call makes at most 6 attempts,
\* after which it reports that max retries were reached and returns.
C26_BoundedRetriesThenReport ==
    /\ calls <= MAX_RETRIES + 1
    /\ scraper_pc # "raised"
    /\ reported_max => (calls = MAX_RETRIES + 1 /\ scraper_pc = "returned")

\* C27: for each result row, opening and saving the popup is attempted at
\* most 3 times; after the first success or the third failure the scraper
\* advances to the next row, so a row whose popup keeps failing is skipped
\* without aborting the page and without writing a file for it.
C27_FailingRowIsSkippedWithoutFile ==
    /\ popup_retry_count < 3
    /\ scraper_pc = "rows" =>
          current_row = 1 + Cardinality({k \in 1..Len(row_log) :
                                            row_log[k].page = current_page})
    /\ \A k \in 1..Len(row_log) :
          /\ row_log[k].attempts <= 3
          /\ ~row_log[k].saved =>
                /\ row_log[k].attempts = 3
                /\ <<row_log[k].page, row_log[k].row>> \notin output_files

\* C27 (amended): for each result row, opening and saving the popup is
\* attempted at most 3 times; after the first success or the third failure
\* the scraper advances to the next row without aborting the page; the
\* row's file exists exactly when an attempt got as far as writing it, which
\* includes an attempt that failed afterwards, at closing the popup.
C27_FileExistsIffAnAttemptWroteIt ==
    /\ popup_retry_count < 3
    /\ scraper_pc = "rows" =>
          current_row = 1 + Cardinality({k \in 1..Len(row_log) :
                                            row_log[k].page = current_page})
    /\ \A k \in 1..Len(row_log) :
          /\ row_log[k].attempts <= 3
          /\ row_log[k].saved => row_log[k].written
          /\ ~row_log[k].saved => row_log[k].attempts = 3
          /\ row_log[k].written <=>
                <<row_log[k].page, row_log[k].row>> \in output_files

C27_Witness ==
    /\ scraper_pc = "rows"
    /\ current_page = 1
    /\ current_row = 3
    /\ ~row_log[1].saved
    /\ ~row_log[1].written
    /\ row_log[2].saved
    /\ row_log[2].attempts = 3
    /\ output_files = {<<1, 2>>}

====
